---- MODULE Spec2Model ----
(***************************************************************************)
(* A model of scripts/cancel_github_workflows.py: one invocation of the    *)
(* command cancel_github_workflows, step by step, against a GitHub API     *)
(* whose answers are chosen nondeterministically.                          *)
(*                                                                         *)
(* Strings the program inspects character by character (branch_or_pull,    *)
(* branch names, logins) are sequences of one-character strings.           *)
(***************************************************************************)
EXTENDS Integers, Sequences, FiniteSets, TLC

VARIABLES
    github_token,    \* TRUE iff the environment holds a non-empty GITHUB_TOKEN
    branch_or_pull,  \* the positional argument
    event,           \* the --event option, a list
    keep_last,       \* --keep-last/--no-keep-last
    keep_running,    \* --keep-running/--no-keep-running
    pc,              \* position of the invocation in cancel_github_workflows
    statuses,        \* local statuses
    pr,              \* local pr
    user,            \* local user of the branch path
    branch,          \* local branch of the branch path
    q_branch,        \* parameter branch of get_runs_by_branch
    q_user,          \* parameter user of get_runs_by_branch
    ei,              \* position of the comprehension in events
    si,              \* position of the comprehension in statuses
    runs,            \* local runs
    selected,        \* value of runs right after the sort
    last_sha,        \* local last_sha
    idx,             \* position of the for loop in runs
    calls,           \* the HTTP requests issued so far, in order
    attempts,        \* the entries handed to cancel_run so far, in order
    report,          \* what has been printed so far, in order
    error,           \* the exception that ended the invocation, or NoError
    items            \* workflow runs fetched and not yet filtered

vars == <<github_token, branch_or_pull, event, keep_last, keep_running, pc,
          statuses, pr, user, branch, q_branch, q_user, ei, si, runs, selected,
          last_sha, idx, calls, attempts, report, error, items>>

inputs == <<github_token, branch_or_pull, event, keep_last, keep_running, items>>

----------------------------------------------------------------------------
(* Bounds of the model. *)

\* longest branch_or_pull
MaxLen == 3
\* most runs handed to the filter of get_runs_by_branch at once
MaxFetched == 2
\* most matching runs accumulated over the listing calls
MaxRuns == 3

----------------------------------------------------------------------------
(* Values. *)

None == <<"None">>

\* the characters str.isdigit() accepts: decimal digits, and digits that are
\* not decimal such as SUPERSCRIPT TWO, written "sup2" here
DecimalChars == {"7"}
DigitChars == DecimalChars \cup {"sup2"}
Alphabet == DigitChars \cup {"a", "A", ":"}

SeqsUpTo(S, n) == UNION {[1..k -> S] : k \in 0..n}

Branches == {<<"a">>, <<"A">>}
Logins == {<<"a">>, <<"A">>}
Shas == {<<"abc123">>, <<"def456">>}
Times == {1, 2}
RunIds == {41, 42}
Messages == {"Not Found"}
\* the default of --event
DefaultEvent == <<"pull_request", "push">>

\* a branch, a pull request number and a branch of a user's fork
SampleArguments == {<<"a">>, <<"7">>, <<"a", ":", "a">>}
\* the default and a single event
SampleEvents == {DefaultEvent, <<"issue">>}

\* the fields of a workflow run the program reads; owner is
\* head_repository.owner.login and head_commit is head_commit.id
RunRecords ==
    [id : RunIds, head_branch : Branches, owner : Logins,
     head_commit : Shas, created_at : Times]

\* the fields of a pull request the program reads; head_ref is head.ref and
\* user_login is user.login
PullRecords == [head_ref : Branches, user_login : Logins]

\* pr = None
NoPull == [head_ref |-> None, user_login |-> None]

\* no exception
NoError == [type |-> "None"]

\* what the network gives back for one HTTP request: no JSON body at all, or a body
Transport == [kind |-> "transport"]
ErrorBodies == {[kind |-> "body", body |-> [message |-> m]] : m \in Messages}
Failures == {Transport} \cup ErrorBodies

----------------------------------------------------------------------------
(* Python's string operations, on sequences of characters. *)

\* a test of the first character only
isdigit_of_first(s) == Len(s) > 0 /\ s[1] \in DigitChars

\* str.isdigit(): non-empty and every character a digit
isdigit(s) == Len(s) > 0 /\ \A i \in 1..Len(s) : s[i] \in DigitChars

\* sep in s, for a one-character sep
contains(s, sep) == \E i \in 1..Len(s) : s[i] = sep

\* s.find(sep), 1-based; only used where sep occurs
find(s, sep) == CHOOSE i \in 1..Len(s) : s[i] = sep /\ \A j \in 1..(i - 1) : s[j] # sep

\* s.split(sep, maxsplit): cuts at the first maxsplit separators
RECURSIVE split(_, _, _)
split(s, sep, maxsplit) ==
    IF maxsplit = 0 \/ ~contains(s, sep)
    THEN <<s>>
    ELSE <<SubSeq(s, 1, find(s, sep) - 1)>>
         \o split(SubSeq(s, find(s, sep) + 1, Len(s)), sep, maxsplit - 1)

\* sorted(runs, key=lambda x: x["created_at"]): a stable sort
RECURSIVE insert(_, _)
insert(sorted, x) ==
    IF sorted = <<>> \/ sorted[Len(sorted)].created_at <= x.created_at
    THEN Append(sorted, x)
    ELSE Append(insert(SubSeq(sorted, 1, Len(sorted) - 1), x), sorted[Len(sorted)])

RECURSIVE sorted_by_created_at(_)
sorted_by_created_at(s) ==
    IF s = <<>>
    THEN <<>>
    ELSE insert(sorted_by_created_at(SubSeq(s, 1, Len(s) - 1)), s[Len(s)])

----------------------------------------------------------------------------
(* The API client. *)

\* what request() does with the network's answer: an exception other than
\* ClickException when there is no JSON body, ClickException when the body
\* has a message, the body otherwise
request(method, endpoint, raw) ==
    IF raw.kind = "transport"
    THEN [outcome |-> "Exception"]
    ELSE IF "message" \in DOMAIN raw.body
         THEN [outcome |-> "ClickException",
               message |-> [method |-> method, endpoint |-> endpoint,
                            message |-> raw.body.message]]
         ELSE [outcome |-> "return", resp |-> raw.body]

runs_endpoint(params) == [path |-> "actions/runs", arg |-> <<params.event, params.status>>]
cancel_endpoint(run_id) == [path |-> "cancel", arg |-> <<run_id>>]
pulls_endpoint(pull_number) == [path |-> "pulls", arg |-> pull_number]

list_runs(params, raw) == request("GET", runs_endpoint(params), raw)
cancel_run(run_id, raw) == request("POST", cancel_endpoint(run_id), raw)
get_pull_request(pull_number, raw) == request("GET", pulls_endpoint(pull_number), raw)

\* a filter that forgets the user
matches_branch_only(item, branch_, user_) == item.head_branch = branch_

\* the condition of the comprehension of get_runs_by_branch
matches(item, branch_, user_) ==
    /\ item.head_branch = branch_
    /\ (user_ = None \/ user_ = item.owner)

filter_runs(fetched, branch_, user_) ==
    SelectSeq(fetched, LAMBDA item : matches(item, branch_, user_))

----------------------------------------------------------------------------
(* Pieces of cancel_github_workflows. *)

\* statuses = ("queued",) if keep_running else ("queued", "in_progress")
statuses_of(keep_running_) ==
    IF keep_running_ THEN <<"queued">> ELSE <<"queued", "in_progress">>

\* the branch argument of the call of get_runs_by_branch on the branch path
branch_argument(branch_or_pull_, branch_) == branch_or_pull_

\* a keep-last that drops the last run only
without_last_run(rs, sha) == SubSeq(rs, 1, Len(rs) - 1)

\* a keep-last that never empties the list
without_commit_but_one(rs, sha) ==
    IF \A i \in 1..Len(rs) : rs[i].head_commit = sha
    THEN SubSeq(rs, 1, 1)
    ELSE SelectSeq(rs, LAMBDA x : x.head_commit # sha)

\* runs = [x for x in runs if x["head_commit"]["id"] != last_sha]
without_commit(rs, sha) == SelectSeq(rs, LAMBDA x : x.head_commit # sha)

\* a header for every run
starts_group_always(head_commit, last_sha_) == TRUE

\* if head_commit["id"] != last_sha
starts_group(head_commit, last_sha_) == head_commit # last_sha_

\* a loop without the except clause
caught_never(outcome) == FALSE

\* except ClickException as error
caught(outcome) == outcome = "ClickException"

ConfigurationError ==
    [type |-> "ClickException",
     message |-> [config |-> "Please provide GITHUB_TOKEN as an env variable"]]

----------------------------------------------------------------------------
(* What the API may answer. *)

PullAnswers == Failures \cup {[kind |-> "body", body |-> p] : p \in PullRecords}

\* a listing carries no run or one run; the listings of the (event, status)
\* pairs together carry up to MaxRuns runs, in any order and with repeats
Pages == {<<>>} \cup {<<r>> : r \in RunRecords}

ListAnswers ==
    Failures \cup {[kind |-> "body", body |-> [workflow_runs |-> p]] : p \in Pages}

CancelAnswers == Failures \cup {[kind |-> "body", body |-> [accepted |-> TRUE]]}

----------------------------------------------------------------------------
(* The invocation. *)

\* the command line and the environment, and the locals before the first step
Setup(arguments, events, keep_lasts, keep_runnings) ==
    /\ github_token \in BOOLEAN
    /\ branch_or_pull \in arguments
    /\ event \in events
    /\ keep_last \in keep_lasts
    /\ keep_running \in keep_runnings
    /\ pc = "Idle"
    /\ statuses = <<>>
    /\ pr = NoPull
    /\ user = None
    /\ branch = None
    /\ q_branch = None
    /\ q_user = None
    /\ ei = 1
    /\ si = 1
    /\ runs = <<>>
    /\ selected = <<>>
    /\ last_sha = None
    /\ idx = 1
    /\ calls = <<>>
    /\ attempts = <<>>
    /\ report = <<>>
    /\ error = NoError
    /\ items = <<>>

\* a branch, a pull request number and a fork's branch, under every setting
\* of the options
Init == Setup(SampleArguments, SampleEvents, BOOLEAN, BOOLEAN)

\* every argument of up to MaxLen characters, under the default options
InitArguments == Setup(SeqsUpTo(Alphabet, MaxLen), {DefaultEvent}, {TRUE}, {TRUE})

\* get_runs_by_branch with everything fetched: any runs, any branch and user
InitFetched ==
    /\ github_token = TRUE
    /\ branch_or_pull = <<>>
    /\ event = DefaultEvent
    /\ keep_last \in BOOLEAN
    /\ keep_running = TRUE
    /\ pc = "Fetched"
    /\ statuses = statuses_of(keep_running)
    /\ pr = NoPull
    /\ user = None
    /\ branch = None
    /\ q_branch \in Branches
    /\ q_user \in Logins \cup {None}
    /\ ei = 1
    /\ si = 1
    /\ runs = <<>>
    /\ selected = <<>>
    /\ last_sha = None
    /\ idx = 1
    /\ calls = <<>>
    /\ attempts = <<>>
    /\ report = <<>>
    /\ error = NoError
    /\ items \in SeqsUpTo(RunRecords, MaxFetched)

\* an exception that is recorded while the command goes on with what it has
Raise_and_go_on(outcome) ==
    /\ pc' = "Filtering"
    /\ error' = IF outcome.outcome = "ClickException"
                THEN [type |-> "ClickException", message |-> outcome.message]
                ELSE [type |-> outcome.outcome]

\* an exception leaves cancel_github_workflows: ClickException ends the
\* command with its message, any other exception with a traceback
Raise(outcome) ==
    /\ pc' = IF outcome.outcome = "ClickException" THEN "Failed" ELSE "Crashed"
    /\ error' = IF outcome.outcome = "ClickException"
                THEN [type |-> "ClickException", message |-> outcome.message]
                ELSE [type |-> outcome.outcome]

\* the token check and the choice of statuses
Start ==
    /\ pc = "Idle"
    /\ IF ~github_token
       THEN /\ pc' = "Failed"
            /\ error' = ConfigurationError
            /\ UNCHANGED statuses
       ELSE /\ statuses' = statuses_of(keep_running)
            /\ pc' = "Resolving"
            /\ UNCHANGED error
    /\ UNCHANGED <<inputs, pr, user, branch, q_branch, q_user, ei, si, runs,
                   selected, last_sha, idx, calls, attempts, report>>

\* branch_or_pull.isdigit(): the pull request is fetched and its head.ref and
\* user.login become the arguments of get_runs_by_branch
ResolvePull ==
    /\ pc = "Resolving"
    /\ isdigit(branch_or_pull)
    /\ \E raw \in PullAnswers :
         LET r == get_pull_request(branch_or_pull, raw) IN
         /\ calls' = Append(calls, [method |-> "GET",
                                    endpoint |-> pulls_endpoint(branch_or_pull)])
         /\ IF r.outcome = "return"
            THEN /\ pr' = r.resp
                 /\ q_branch' = r.resp.head_ref
                 /\ q_user' = r.resp.user_login
                 /\ pc' = "Querying"
                 /\ UNCHANGED error
            ELSE /\ Raise(r)
                 /\ UNCHANGED <<pr, q_branch, q_user>>
    /\ UNCHANGED <<inputs, statuses, user, branch, ei, si, runs, selected,
                   last_sha, idx, attempts, report>>

\* not branch_or_pull.isdigit(): the optional split at ":" and the arguments
\* of get_runs_by_branch
ResolveBranch ==
    /\ pc = "Resolving"
    /\ ~isdigit(branch_or_pull)
    /\ IF contains(branch_or_pull, ":")
       THEN LET parts == split(branch_or_pull, ":", 2) IN
            IF Len(parts) # 2
            THEN \* [user, branch] = ... with three parts: ValueError
                 /\ Raise([outcome |-> "ValueError"])
                 /\ UNCHANGED <<user, branch, q_branch, q_user>>
            ELSE /\ user' = parts[1]
                 /\ branch' = parts[2]
                 /\ q_branch' = branch_argument(branch_or_pull, parts[2])
                 /\ q_user' = parts[1]
                 /\ pc' = "Querying"
                 /\ UNCHANGED error
       ELSE /\ user' = None
            /\ branch' = branch_or_pull
            /\ q_branch' = branch_argument(branch_or_pull, branch_or_pull)
            /\ q_user' = None
            /\ pc' = "Querying"
            /\ UNCHANGED error
    /\ UNCHANGED <<inputs, statuses, pr, ei, si, runs, selected, last_sha, idx,
                   calls, attempts, report>>

\* one round of the comprehension of get_runs_by_branch: one list_runs call
\* and the filter on what it returns
ListRuns ==
    /\ pc = "Querying"
    /\ \E raw \in ListAnswers :
         LET params == [event |-> event[ei], status |-> statuses[si]]
             r == list_runs(params, raw)
         IN
         /\ calls' = Append(calls, [method |-> "GET", endpoint |-> runs_endpoint(params)])
         /\ IF r.outcome = "return"
            THEN /\ runs' = runs \o filter_runs(r.resp.workflow_runs, q_branch, q_user)
                 /\ Len(runs') <= MaxRuns
                 /\ IF si < Len(statuses)
                    THEN si' = si + 1 /\ UNCHANGED <<ei, pc>>
                    ELSE IF ei < Len(event)
                         THEN ei' = ei + 1 /\ si' = 1 /\ UNCHANGED pc
                         ELSE pc' = "Filtering" /\ UNCHANGED <<ei, si>>
                 /\ UNCHANGED error
            ELSE /\ Raise(r)
                 /\ UNCHANGED <<runs, ei, si>>
    /\ UNCHANGED <<inputs, statuses, pr, user, branch, q_branch, q_user, selected,
                   last_sha, idx, attempts, report>>

\* the sort, the two early returns and the keep-last filter
Select ==
    /\ pc = "Filtering"
    /\ LET sorted == sorted_by_created_at(runs) IN
       /\ selected' = sorted
       /\ IF sorted = <<>>
          THEN /\ runs' = sorted
               /\ report' = Append(report, [kind |-> "none found"])
               /\ pc' = "Done"
               /\ UNCHANGED last_sha
          ELSE LET last == sorted[Len(sorted)].head_commit
                   kept == IF keep_last THEN without_commit(sorted, last) ELSE sorted
               IN
               /\ runs' = kept
               /\ IF kept = <<>>
                  THEN /\ report' = Append(report, [kind |-> "only latest"])
                       /\ pc' = "Done"
                       /\ last_sha' = last
                  ELSE /\ pc' = "Cancelling"
                       /\ last_sha' = None
                       /\ UNCHANGED report
    /\ UNCHANGED <<inputs, statuses, pr, user, branch, q_branch, q_user, ei, si,
                   idx, calls, attempts, error>>

\* one round of the for loop: the commit header when the commit changes, the
\* cancel_run call and the line printed for it
CancelOne ==
    /\ pc = "Cancelling"
    /\ \E raw \in CancelAnswers :
         LET entry == runs[idx]
             head_commit == entry.head_commit
             header == IF starts_group(head_commit, last_sha)
                       THEN <<[kind |-> "commit", id |-> head_commit]>>
                       ELSE <<>>
             r == cancel_run(entry.id, raw)
         IN
         /\ last_sha' = IF starts_group(head_commit, last_sha) THEN head_commit ELSE last_sha
         /\ calls' = Append(calls, [method |-> "POST", endpoint |-> cancel_endpoint(entry.id)])
         /\ attempts' = Append(attempts, entry)
         /\ IF r.outcome = "return"
            THEN /\ report' = report \o header \o <<[kind |-> "cancelled", run |-> entry.id]>>
                 /\ pc' = IF idx = Len(runs) THEN "Done" ELSE "Cancelling"
                 /\ idx' = idx + 1
                 /\ UNCHANGED error
            ELSE IF caught(r.outcome)
            THEN /\ report' = report \o header
                                \o <<[kind |-> "error", run |-> entry.id,
                                      message |-> r.message]>>
                 /\ pc' = IF idx = Len(runs) THEN "Done" ELSE "Cancelling"
                 /\ idx' = idx + 1
                 /\ UNCHANGED error
            ELSE /\ report' = report \o header
                 /\ Raise(r)
                 /\ UNCHANGED idx
    /\ UNCHANGED <<inputs, statuses, pr, user, branch, q_branch, q_user, ei, si,
                   runs, selected>>

\* the comprehension of get_runs_by_branch over runs already fetched
FilterFetched ==
    /\ pc = "Fetched"
    /\ runs' = filter_runs(items, q_branch, q_user)
    /\ pc' = "Filtering"
    /\ UNCHANGED <<inputs, statuses, pr, user, branch, q_branch, q_user, ei, si,
                   selected, last_sha, idx, calls, attempts, report, error>>

Next ==
    \/ Start
    \/ ResolvePull
    \/ ResolveBranch
    \/ ListRuns
    \/ Select
    \/ CancelOne

Spec == Init /\ [][Next]_vars

SpecArguments == InitArguments /\ [][Next]_vars

NextFetched ==
    \/ FilterFetched
    \/ Select
    \/ CancelOne

SpecFetched == InitFetched /\ [][NextFetched]_vars

----------------------------------------------------------------------------
(* Vocabulary of the properties. *)

CancelCalls == SelectSeq(calls, LAMBDA c : c.endpoint.path = "cancel")
PullCalls == SelectSeq(calls, LAMBDA c : c.endpoint.path = "pulls")
ListCalls == SelectSeq(calls, LAMBDA c : c.endpoint.path = "actions/runs")

\* the ids of the runs POSTed to .../cancel so far, in order
CancelledIds == [i \in 1..Len(CancelCalls) |-> CancelCalls[i].endpoint.arg[1]]

NoRepeats(f) == \A i, j \in DOMAIN f : i # j => f[i] # f[j]

IdsOf(rs) == [i \in 1..Len(rs) |-> rs[i].id]

\* the argument was read and the token was there
Resolved == github_token /\ pc \notin {"Idle", "Resolving"}

\* the lines printed by the loop: commit headers and one line per run
LoopLines == SelectSeq(report, LAMBDA l : l.kind \in {"commit", "cancelled", "error"})
ResultLines == SelectSeq(report, LAMBDA l : l.kind \in {"cancelled", "error"})

----------------------------------------------------------------------------
(* C1 *)

\* C1: in one invocation no run id is POSTed to .../cancel more than once,
\* and no run id is twice in the selection handed to the loop.
C1_NoRunCancelledTwice ==
    /\ NoRepeats(CancelledIds)
    /\ pc \in {"Cancelling", "Done"} => NoRepeats(IdsOf(runs))

----------------------------------------------------------------------------
(* C2 *)

FirstColon(s) == CHOOSE i \in 1..Len(s) : s[i] = ":" /\ \A j \in 1..(i - 1) : s[j] # ":"
HasColon(s) == \E i \in 1..Len(s) : s[i] = ":"
BeforeFirstColon(s) == SubSeq(s, 1, FirstColon(s) - 1)
AfterFirstColon(s) == SubSeq(s, FirstColon(s) + 1, Len(s))

\* C2: once a branch specifier is resolved, the run query is filtered by the
\* part before its first colon as the login and the part after it as the
\* branch; without a colon, by no login and the whole specifier as the branch.
C2_SplitAtFirstColon ==
    (Resolved /\ ~isdigit(branch_or_pull)) =>
        IF HasColon(branch_or_pull)
        THEN /\ pc # "Crashed"
             /\ q_user = BeforeFirstColon(branch_or_pull)
             /\ q_branch = AfterFirstColon(branch_or_pull)
        ELSE /\ q_user = None
             /\ q_branch = branch_or_pull

----------------------------------------------------------------------------
(* C9 *)

\* C9: a transport failure of a cancellation request does not end the
\* invocation: the loop goes on to the remaining runs.
C9_TransportFailureCaught ==
    ~(pc = "Crashed" /\ attempts # <<>>)

----------------------------------------------------------------------------
(* C3 *)

Count(f, x) == Cardinality({i \in DOMAIN f : f[i] = x})

\* a run on the branch asked for, of the user asked for when one is
Wanted(r) == r.head_branch = q_branch /\ (q_user = None \/ r.owner = q_user)

\* C3: what get_runs_by_branch returns holds every fetched run that is on the
\* given branch and, when a user is given, of that user, as often as it was
\* fetched, and no other run; and only such runs are handed to cancel_run.
C3_ExactlyTheMatchingRuns ==
    /\ pc = "Filtering" =>
         \A r \in RunRecords :
             Count(runs, r) = IF Wanted(r) THEN Count(items, r) ELSE 0
    /\ \A i \in 1..Len(attempts) : Wanted(attempts[i])

\* of two fetched runs on the branch, the one of another user is left out
C3_Witness ==
    /\ pc = "Filtering"
    /\ q_user # None
    /\ Len(items) = 2
    /\ Len(runs) = 1
    /\ \A i \in 1..2 : items[i].head_branch = q_branch

----------------------------------------------------------------------------
(* C4 *)

\* the commit of the last run in creation order (among runs created at the
\* same time, the last one fetched)
LastRun == selected[Len(selected)]

\* C4: the last run of the sorted selection has the greatest creation time;
\* with keep_last no run of its commit is handed to cancel_run, wherever it
\* sits; without keep_last a finished invocation has handed every selected
\* run, those of that commit included, to cancel_run.
C4_KeepLast ==
    (selected # <<>>) =>
        /\ \A i \in 1..Len(selected) : selected[i].created_at <= LastRun.created_at
        /\ keep_last =>
             /\ \A i \in 1..Len(attempts) : attempts[i].head_commit # LastRun.head_commit
             /\ pc = "Done" =>
                  attempts = SelectSeq(selected,
                                 LAMBDA x : x.head_commit # LastRun.head_commit)
        /\ (~keep_last /\ pc = "Done") => attempts = selected

\* three runs created at 1 <= 2 <= 2, the later two of one commit: only the
\* first is cancelled
C4_Witness ==
    /\ pc = "Done"
    /\ keep_last
    /\ Len(selected) = 3
    /\ selected[1].created_at < selected[2].created_at
    /\ selected[2].head_commit = selected[3].head_commit
    /\ selected[1].head_commit # selected[3].head_commit
    /\ attempts = <<selected[1]>>

----------------------------------------------------------------------------
(* C5 *)

\* C5: while the loop runs, the runs handed to cancel_run are the batch up to
\* the loop's position, each once, and each has its line, an error line
\* carrying the failed request and the API's message; an invocation that ends
\* after the loop has handed every run of the batch to cancel_run and ends
\* without an error, and no ClickException ends an invocation in the loop.
C5_FailuresDoNotStopTheLoop ==
    /\ pc = "Cancelling" => attempts = SubSeq(runs, 1, idx - 1)
    /\ pc \in {"Cancelling", "Done"} =>
         /\ Len(ResultLines) = Len(attempts)
         /\ \A i \in 1..Len(attempts) :
              /\ ResultLines[i].run = attempts[i].id
              /\ ResultLines[i].kind = "error" =>
                   /\ ResultLines[i].message.method = "POST"
                   /\ ResultLines[i].message.endpoint = cancel_endpoint(attempts[i].id)
                   /\ ResultLines[i].message.message \in Messages
    /\ pc = "Done" => (attempts = runs /\ error = NoError)
    /\ pc = "Failed" => attempts = <<>>

\* the first cancellation failed with a message and the second went through
C5_Witness ==
    /\ pc = "Done"
    /\ Len(attempts) = 2
    /\ ResultLines[1].kind = "error"
    /\ ResultLines[1].message.message = "Not Found"
    /\ ResultLines[2].kind = "cancelled"

----------------------------------------------------------------------------
(* C6 *)

\* every run found is of one commit, which is then the latest one
OneCommit(rs) == \A i, j \in 1..Len(rs) : rs[i].head_commit = rs[j].head_commit

\* C6: when the query found no run, or keep_last is set and the runs found
\* are all of the latest commit, the step after the query ends the invocation
\* with no cancellation request made and no error.
C6_NothingToCancel ==
    [][(pc = "Filtering" /\ (runs = <<>> \/ (keep_last /\ OneCommit(runs)))) =>
          (pc' = "Done" /\ error' = NoError /\ CancelCalls' = <<>> /\ attempts' = <<>>)]_vars

\* two runs of one commit were found and kept
C6_Witness ==
    /\ pc = "Done"
    /\ keep_last
    /\ Len(selected) = 2
    /\ runs = <<>>
    /\ CancelCalls = <<>>

----------------------------------------------------------------------------
(* C7 *)

Decimals == {"0", "1", "2", "3", "4", "5", "6", "7", "8", "9"}
Digits == Decimals \cup {"sup2"}
OnlyOf(s, chars) == Len(s) > 0 /\ \A i \in 1..Len(s) : s[i] \in chars

----------------------------------------------------------------------------
(* C8 *)

\* C8: an invocation holds an API error of the lookup or of a listing only
\* when it has ended in failure, that request was its last, and no
\* cancellation request was made; and a failed invocation takes no more steps.
C8_QueryErrorsAreFatal ==
    /\ (error.type = "ClickException" /\ "endpoint" \in DOMAIN error.message) =>
         /\ error.message.endpoint.path \in {"pulls", "actions/runs"}
         /\ pc = "Failed"
         /\ calls[Len(calls)].endpoint = error.message.endpoint
         /\ CancelCalls = <<>>
         /\ attempts = <<>>
    /\ pc = "Failed" => ~ENABLED Next

\* the second listing of a pull request's runs failed after the first found one
C8_Witness ==
    /\ pc = "Failed"
    /\ Len(PullCalls) = 1
    /\ Len(ListCalls) = 2
    /\ Len(runs) = 1
    /\ error.message.endpoint.path = "actions/runs"

----------------------------------------------------------------------------
(* C10 *)

\* the lines the loop owes for the runs handed to cancel_run: a header before
\* the first run of every block of one commit, and a line per run
RECURSIVE OwedLines(_)
OwedLines(as) ==
    IF as = <<>>
    THEN <<>>
    ELSE LET n == Len(as) IN
         OwedLines(SubSeq(as, 1, n - 1))
         \o (IF n = 1 \/ as[n - 1].head_commit # as[n].head_commit
             THEN <<<<"commit", as[n].head_commit>>>>
             ELSE <<>>)
         \o <<<<"run", as[n].id>>>>

LineShape(l) == IF l.kind = "commit" THEN <<"commit", l.id>> ELSE <<"run", l.run>>
PrintedLines == [i \in 1..Len(LoopLines) |-> LineShape(LoopLines[i])]

\* C10: the loop visits the runs in ascending creation time and prints one
\* header per block of consecutive runs of one commit, before the line of
\* the block's first run; when the request for a run ends the invocation,
\* the header owed for that run is already printed.
C10_OneHeaderPerBlock ==
    /\ \A i, j \in 1..Len(attempts) : i < j => attempts[i].created_at <= attempts[j].created_at
    /\ pc # "Crashed" => PrintedLines = OwedLines(attempts)
    /\ (pc = "Crashed" /\ attempts # <<>>) =>
         PrintedLines = SubSeq(OwedLines(attempts), 1, Len(OwedLines(attempts)) - 1)

\* three runs cancelled, the first two of one commit: two headers
C10_Witness ==
    /\ pc = "Done"
    /\ Len(attempts) = 3
    /\ attempts[1].head_commit = attempts[2].head_commit
    /\ attempts[2].head_commit # attempts[3].head_commit
    /\ Len(SelectSeq(report, LAMBDA l : l.kind = "commit")) = 2

====
